---- MODULE Spec2Model ----
(***************************************************************************)
(* Control-set optimizer of no2build (sw/ice40_opt_cset.py).               *)
(*                                                                         *)
(* The netlist (ctx) is a map from cell names to cells; a cell has a type  *)
(* tag, named ports each connected to a net name or to None, and, for a    *)
(* lookup table, its LUT_INIT parameter.  A net's driver and users are     *)
(* read off the ports connected to it.  Type tags and LUT_INIT values are  *)
(* sequences of one-character strings so that the string surgery of the    *)
(* code (startswith, in, replace, int(.,2), format) is modelled by what it *)
(* does.                                                                   *)
(***************************************************************************)
EXTENDS Integers, Sequences, FiniteSets, TLC

VARIABLES
    ctx,            \* self.ctx: the netlist, cell name -> cell
    cset_map,       \* self.cset_map: ControlSet -> list of member cell names
    cset_keys,      \* the keys of self.cset_map in the dict's iteration order
    to_process,     \* optimize: the worklist
    total_cost,     \* optimize: accumulated cost
    threshold,      \* optimize: the threshold argument
    pc,             \* optimize: position ("start", "loop", "select", "apply", "done");
                    \* of a stand-alone call: "call", "ret"
    cset,           \* optimize: the control set popped last
    possible_tgt,   \* optimize: candidates of the popped control set
    chosen,         \* optimize: the candidate being applied (possible_tgt[0])
    pending,        \* optimize: control sets of the chosen group not yet folded
    evaluated,      \* optimize: every legal option of the popped control set
    cset_map0,      \* the index as build_map returned it
    cset_cnt_before,\* optimize: len(cset_map) at the start
    cset_cnt_after, \* optimize: len(cset_map) at the end
    ctx0,           \* the netlist as optimize found it
    call,           \* arguments of a stand-alone call of one function
    result          \* its result

vars == <<ctx, cset_map, cset_keys, to_process, total_cost, threshold, pc, cset,
          possible_tgt, chosen, pending, evaluated, cset_map0,
          cset_cnt_before, cset_cnt_after, ctx0, call, result>>

\* Python's None, and None where the code holds an int otherwise
None == "<None>"
NoneInt == 0 - 1

\* statement sequencing: compute e, then F of its value
Then(e, F(_)) == CHOOSE r \in { F(v) : v \in {e} } : TRUE

-----------------------------------------------------------------------------
(* Strings as sequences of characters *)

startswith(t, prefix) ==
    /\ Len(t) >= Len(prefix)
    /\ SubSeq(t, 1, Len(prefix)) = prefix

contains(t, sub) ==
    \E k \in 1..(Len(t) - Len(sub) + 1) : SubSeq(t, k, k + Len(sub) - 1) = sub

\* str.replace(old, ''): left to right, non-overlapping
RECURSIVE replace(_, _)
replace(t0, old) ==
    Then(t0, LAMBDA t :
    IF Len(t) < Len(old) THEN t
    ELSE IF SubSeq(t, 1, Len(old)) = old
         THEN replace(SubSeq(t, Len(old) + 1, Len(t)), old)
         ELSE <<Head(t)>> \o replace(Tail(t), old))

SB_DFF   == <<"S", "B", "_", "D", "F", "F">>
SB_LUT4  == <<"S", "B", "_", "L", "U", "T", "4">>
SB_CARRY == <<"S", "B", "_", "C", "A", "R", "R", "Y">>
SB_IO    == <<"S", "B", "_", "I", "O">>
GND      == <<"G", "N", "D">>
VCC      == <<"V", "C", "C">>

\* The type tags can_convert lists as asynchronous
AsyncTags ==
    { SB_DFF \o <<"R">>, SB_DFF \o <<"S">>,
      SB_DFF \o <<"E", "R">>, SB_DFF \o <<"E", "S">> }

-----------------------------------------------------------------------------
(* Netlist access layer *)

IsOutput(p) == p \in {"O", "Q", "CO", "D_IN_0", "Y"}

InputPorts ==
    {"I0", "I1", "I2", "I3", "D", "R", "S", "E", "C", "CI", "D_OUT_0"}

\* net.driver.cell
DriverCell(c, net) ==
    CHOOSE n \in DOMAIN c :
        \E p \in DOMAIN c[n].ports : IsOutput(p) /\ c[n].ports[p] = net

\* net.users
Users(c, net) ==
    { u \in { <<n, p>> : n \in DOMAIN c, p \in InputPorts } :
        /\ u[2] \in DOMAIN c[u[1]].ports
        /\ c[u[1]].ports[u[2]] = net }

disconnectPort(c, cell, p) ==
    IF p \in DOMAIN c[cell].ports
    THEN [c EXCEPT ![cell].ports[p] = None]
    ELSE c

connectPort(c, net, cell, p) ==
    [c EXCEPT ![cell].ports[p] = net]

createCell(c, name, type) ==
    [n \in DOMAIN c \cup {name} |->
        IF n = name
        THEN [type |-> type, ports |-> <<>>, params |-> <<>>]
        ELSE c[n]]

createNet(name) == name

-----------------------------------------------------------------------------
(* ControlSet and the index *)

ControlSet(rs, ena, clk) == [rs |-> rs, ena |-> ena, clk |-> clk]

\* cell.ports[p].net.name if p in cell.ports and the net is not None
NetOrNone(c, cell, p) ==
    IF p \in DOMAIN c[cell].ports THEN c[cell].ports[p] ELSE None

\* Python's "a or b" on net names
PyOr(a, b) == IF a # None /\ a # "" THEN a ELSE b

IsFF(c, cell) == startswith(c[cell].type, SB_DFF)

from_cell(c, cell) ==
    LET net_r == NetOrNone(c, cell, "R")
        net_s == NetOrNone(c, cell, "S")
        net_e == NetOrNone(c, cell, "E")
        net_c == NetOrNone(c, cell, "C")
    IN  ControlSet(PyOr(net_r, net_s), net_e, net_c)

\* dict.setdefault(k, []).append / extend
SetDefaultExtend(m, k, more) ==
    [x \in DOMAIN m \cup {k} |->
        IF x = k THEN (IF k \in DOMAIN m THEN m[k] ELSE <<>>) \o more
        ELSE m[x]]

\* dict.pop(k)
DictPop(m, k) == [x \in DOMAIN m \ {k} |-> m[x]]

\* build_map over the cells in enumeration order
RECURSIVE build_map_scan(_, _, _)
build_map_scan(c, names, m) ==
    IF names = <<>> THEN m
    ELSE LET cell == Head(names) IN
         IF ~IsFF(c, cell)
         THEN build_map_scan(c, Tail(names), m)
         ELSE build_map_scan(c, Tail(names),
                             SetDefaultExtend(m, from_cell(c, cell), <<cell>>))

-----------------------------------------------------------------------------
(* Cost model *)

_net_name_simplify(c, net) ==
    IF net = None THEN None
    ELSE IF c[DriverCell(c, net)].type = GND THEN "GND"
    ELSE IF c[DriverCell(c, net)].type = VCC THEN "VCC"
    ELSE net

_unused_port(c, cell, port_name) ==
    LET n == c[cell].ports[port_name] IN
    IF n = None THEN TRUE
    ELSE c[DriverCell(c, n)].type = GND

_cell_has_carry(c, cell) ==
    LET n1 == c[cell].ports["I1"]
        n2 == c[cell].ports["I2"]
        users == (IF n1 # None THEN Users(c, n1) ELSE {})
                 \cup (IF n2 # None THEN Users(c, n2) ELSE {})
        nn1 == _net_name_simplify(c, n1)
        nn2 == _net_name_simplify(c, n2)
    IN  \E u \in users :
            /\ c[u[1]].type = SB_CARRY
            /\ _net_name_simplify(c, c[u[1]].ports["I0"]) = nn1
            /\ _net_name_simplify(c, c[u[1]].ports["I1"]) = nn2

LutPorts == <<"I0", "I1", "I2", "I3">>

\* the list of free ports, in port order
_lut_free_ports(c, cell) ==
    LET first == SelectSeq(LutPorts, LAMBDA p : _unused_port(c, cell, p))
    IN  IF _cell_has_carry(c, cell)
        THEN SelectSeq(first, LAMBDA p : p \notin {"I1", "I2"})
        ELSE first

rm_rs_of(conv)  == (conv % 2) = 1
rm_ena_of(conv) == ((conv \div 2) % 2) = 1
n_in_of(conv) ==
    (2 * (IF rm_ena_of(conv) THEN 1 ELSE 0)) + (1 * (IF rm_rs_of(conv) THEN 1 ELSE 0))

\* variant: the consumer count of the driver's output (line 160) is not looked at
cost_cell_any_fanout(c, cell, conv) ==
    Then(DriverCell(c, c[cell].ports["D"]), LAMBDA driver_cell :
    IF c[driver_cell].type # SB_LUT4 THEN 0
    ELSE IF Len(_lut_free_ports(c, driver_cell)) < n_in_of(conv) THEN 1
    ELSE 0)

\* what one member cell adds to the cost
cost_cell(c, cell, conv) ==
    Then(DriverCell(c, c[cell].ports["D"]), LAMBDA driver_cell :
    IF c[driver_cell].type # SB_LUT4 THEN 0
    ELSE IF Cardinality(Users(c, c[driver_cell].ports["O"])) > 1 THEN 0
    ELSE IF Len(_lut_free_ports(c, driver_cell)) < n_in_of(conv) THEN 1
    ELSE 0)

RECURSIVE SumSeq(_)
SumSeq(s) ==
    Then(s, LAMBDA v : IF v = <<>> THEN 0 ELSE Head(v) + SumSeq(Tail(v)))

cost_convert(c, m, cs, conv) ==
    SumSeq([k \in 1..Len(m[cs]) |-> cost_cell(c, m[cs][k], conv)])

-----------------------------------------------------------------------------
(* Legality model *)

\* variant: the enable-before-reset check of line 201 is left out
can_convert_no_precedence(c, m, cs, conv) ==
    LET rm_rs   == rm_rs_of(conv)
        rm_ena  == rm_ena_of(conv)
        has_rs0 == cs.rs # None
        has_ena == cs.ena # None
        has_rs  == has_rs0 /\ ~(\E k \in 1..Len(m[cs]) : c[m[cs][k]].type \in AsyncTags)
    IN  IF rm_rs /\ ~has_rs THEN FALSE
        ELSE IF rm_ena /\ ~has_ena THEN FALSE
        ELSE TRUE

can_convert(c, m, cs, conv) ==
    LET rm_rs   == rm_rs_of(conv)
        rm_ena  == rm_ena_of(conv)
        has_rs0 == cs.rs # None
        has_ena == cs.ena # None
        has_rs  == has_rs0 /\ ~(\E k \in 1..Len(m[cs]) : c[m[cs][k]].type \in AsyncTags)
    IN  IF rm_rs /\ ~has_rs THEN FALSE
        ELSE IF rm_ena /\ ~has_ena THEN FALSE
        ELSE IF has_rs /\ (rm_ena /\ ~rm_rs) THEN FALSE
        ELSE TRUE

-----------------------------------------------------------------------------
(* Truth-table rewriter *)

\* int(val, 2) of a string of binary digits
RECURSIVE int2(_)
int2(val) ==
    Then(val, LAMBDA str :
    IF str = <<>> THEN 0
    ELSE 2 * int2(SubSeq(str, 1, Len(str) - 1))
         + (IF str[Len(str)] = "1" THEN 1 ELSE 0))

\* f'{val:016b}'
RECURSIVE bin(_, _)
bin(val, width) ==
    IF width = 0 /\ val = 0 THEN <<>>
    ELSE Then(<<val \div 2, IF width > 0 THEN width - 1 ELSE 0>>, LAMBDA a :
              bin(a[1], a[2]))
         \o <<IF val % 2 = 1 THEN "1" ELSE "0">>

format016b(val) == bin(val, 16)

Pow2(n) == 2 ^ n

\* i & (1 << n) is non-zero
BitSet(i, n) == (i \div Pow2(n)) % 2 = 1

\* val |= mask, val &= ~mask with mask = 1 << i
OrMask(val, i)     == IF BitSet(val, i) THEN val ELSE val + Pow2(i)
AndNotMask(val, i) == IF BitSet(val, i) THEN val - Pow2(i) ELSE val

\* variant: the enable edit of lines 327-333 runs before the reset/set edit
lut_bit_step_reset_last(val, i, pn_rs, rs_val, pn_ena, pn_old) ==
    LET v1 == IF pn_ena # NoneInt /\ ~BitSet(i, pn_ena)
              THEN (IF BitSet(i, pn_old) THEN OrMask(val, i) ELSE AndNotMask(val, i))
              ELSE val
    IN  IF pn_rs # NoneInt /\ BitSet(i, pn_rs)
        THEN (IF rs_val THEN OrMask(v1, i) ELSE AndNotMask(v1, i))
        ELSE v1

\* variant: the set and the reset branch of lines 319-324 are swapped
lut_bit_step_swapped(val, i, pn_rs, rs_val, pn_ena, pn_old) ==
    LET v1 == IF pn_rs # NoneInt /\ BitSet(i, pn_rs)
              THEN (IF rs_val THEN AndNotMask(val, i) ELSE OrMask(val, i))
              ELSE val
    IN  IF pn_ena # NoneInt /\ ~BitSet(i, pn_ena)
        THEN (IF BitSet(i, pn_old) THEN OrMask(v1, i) ELSE AndNotMask(v1, i))
        ELSE v1

\* one pass of the loop body of _update_lut_init, for bit i
lut_bit_step(val, i, pn_rs, rs_val, pn_ena, pn_old) ==
    LET v1 == IF pn_rs # NoneInt /\ BitSet(i, pn_rs)
              THEN (IF rs_val THEN OrMask(val, i) ELSE AndNotMask(val, i))
              ELSE val
    IN  IF pn_ena # NoneInt /\ ~BitSet(i, pn_ena)
        THEN (IF BitSet(i, pn_old) THEN OrMask(v1, i) ELSE AndNotMask(v1, i))
        ELSE v1

RECURSIVE lut_scan(_, _, _, _, _, _)
lut_scan(val, i, pn_rs, rs_val, pn_ena, pn_old) ==
    IF i = 16 THEN val
    ELSE Then(lut_bit_step(val, i, pn_rs, rs_val, pn_ena, pn_old), LAMBDA v :
              lut_scan(v, i + 1, pn_rs, rs_val, pn_ena, pn_old))

_update_lut_init(val, pn_rs, rs_val, pn_ena, pn_old) ==
    Then(int2(val), LAMBDA v0 :
    Then(lut_scan(v0, 0, pn_rs, rs_val, pn_ena, pn_old), LAMBDA v1 :
    format016b(v1)))

\* int(p[1:]) of a lookup-table port name
PortNum(p) == CASE p = "I0" -> 0 [] p = "I1" -> 1 [] p = "I2" -> 2 [] p = "I3" -> 3

\* list.pop(): the last element, and the list without it
PopLast(l)  == l[Len(l)]

\* variant: the element is read but stays on the list (l[-1] instead of l.pop())
PopRest_whole(l) == l

PopRest(l)  == SubSeq(l, 1, Len(l) - 1)

\* LUT_INIT of a fresh lookup table: passes I3 through
PassI3 ==
    <<"1", "1", "1", "1", "1", "1", "1", "1", "0", "0", "0", "0", "0", "0", "0", "0">>

NewLutPorts == [p \in {"I0", "I1", "I2", "I3", "O"} |-> None]

\* exec_convert, lines 214-229: disconnect from the FF and adapt the cell type
retype(t, conv) ==
    LET t1 == IF rm_rs_of(conv)
              THEN replace(replace(t, <<"S", "R">>), <<"S", "S">>)
              ELSE t
    IN  IF rm_ena_of(conv) THEN replace(t1, <<"E">>) ELSE t1

ff_strip(c, cell, conv) ==
    LET c1 == IF rm_rs_of(conv)
              THEN disconnectPort(disconnectPort(c, cell, "R"), cell, "S")
              ELSE c
        c2 == IF rm_ena_of(conv) THEN disconnectPort(c1, cell, "E") ELSE c1
    IN  [c2 EXCEPT ![cell].type = retype(c[cell].type, conv)]

\* exec_convert, lines 231-240: free ports of the driver, [] if it cannot be reused
driver_free_ports(c, cell) ==
    Then(DriverCell(c, c[cell].ports["D"]), LAMBDA driver_cell :
    IF /\ c[driver_cell].type = SB_LUT4
       /\ Cardinality(Users(c, c[driver_cell].ports["O"])) = 1
    THEN _lut_free_ports(c, driver_cell)
    ELSE <<>>)

needs_new_lut(c, cell, conv) == Len(driver_free_ports(c, cell)) < n_in_of(conv)

\* variant: the old data net goes to I0 of the new LUT
insert_lut_on_I0(c, cell) ==
    LET new_lut == cell \o "_conv"
        new_net == createNet(cell \o "_net")
        old_net == c[cell].ports["D"]
        c1 == [createCell(c, new_lut, SB_LUT4) EXCEPT
                  ![new_lut].ports  = NewLutPorts,
                  ![new_lut].params = [LUT_INIT |-> PassI3]]
        c2 == disconnectPort(c1, cell, "D")
        c3 == connectPort(c2, old_net, new_lut, "I0")
        c4 == connectPort(c3, new_net, new_lut, "O")
    IN  connectPort(c4, new_net, cell, "D")

\* exec_convert, lines 244-266: insert a new LUT in front of D
insert_lut(c, cell) ==
    LET new_lut == cell \o "_conv"
        new_net == createNet(cell \o "_net")
        old_net == c[cell].ports["D"]
        c1 == [createCell(c, new_lut, SB_LUT4) EXCEPT
                  ![new_lut].ports  = NewLutPorts,
                  ![new_lut].params = [LUT_INIT |-> PassI3]]
        c2 == disconnectPort(c1, cell, "D")
        c3 == connectPort(c2, old_net, new_lut, "I3")
        c4 == connectPort(c3, new_net, new_lut, "O")
    IN  connectPort(c4, new_net, cell, "D")

\* the LUT the rewrite targets and the free ports it is given
tgt_lut_of(c, cell, conv) ==
    IF needs_new_lut(c, cell, conv) THEN cell \o "_conv"
    ELSE DriverCell(c, c[cell].ports["D"])

free_ports_of(c, cell, conv) ==
    IF needs_new_lut(c, cell, conv) THEN <<"I0", "I1", "I2">>
    ELSE driver_free_ports(c, cell)

\* variant: ports are taken from the front of the list (pop(0))
alloc_ports_from_front(free_ports, conv) ==
    LET p_rs  == IF rm_rs_of(conv) THEN Head(free_ports) ELSE None
        f1    == IF rm_rs_of(conv) THEN Tail(free_ports) ELSE free_ports
        p_ena == IF rm_ena_of(conv) THEN Head(f1) ELSE None
        f2    == IF rm_ena_of(conv) THEN Tail(f1) ELSE f1
        p_old == IF rm_ena_of(conv) THEN Head(f2) ELSE None
    IN  [p_rs |-> p_rs, p_ena |-> p_ena, p_old |-> p_old]

\* the ports popped for reset/set, enable and the old value (None if not removed)
alloc_ports(free_ports, conv) ==
    LET p_rs  == IF rm_rs_of(conv) THEN PopLast(free_ports) ELSE None
        f1    == IF rm_rs_of(conv) THEN PopRest(free_ports) ELSE free_ports
        p_ena == IF rm_ena_of(conv) THEN PopLast(f1) ELSE None
        f2    == IF rm_ena_of(conv) THEN PopRest(f1) ELSE f1
        p_old == IF rm_ena_of(conv) THEN PopLast(f2) ELSE None
    IN  [p_rs |-> p_rs, p_ena |-> p_ena, p_old |-> p_old]

PnOf(p) == IF p = None THEN NoneInt ELSE PortNum(p)

\* exec_convert, lines 271-304: wire the target LUT and rewrite its table
wire_lut(c, cell, tgt_lut, al, cs, set_reset) ==
    Then(IF al.p_rs # None
         THEN connectPort(disconnectPort(c, tgt_lut, al.p_rs),
                          cs.rs, tgt_lut, al.p_rs)
         ELSE c, LAMBDA c1 :
    Then(IF al.p_ena # None
         THEN connectPort(
                connectPort(
                  disconnectPort(disconnectPort(c1, tgt_lut, al.p_ena),
                                 tgt_lut, al.p_old),
                  cs.ena, tgt_lut, al.p_ena),
                c1[cell].ports["Q"], tgt_lut, al.p_old)
         ELSE c1, LAMBDA c3 :
            [c3 EXCEPT ![tgt_lut].params.LUT_INIT =
                _update_lut_init(c3[tgt_lut].params.LUT_INIT,
                                 PnOf(al.p_rs), set_reset,
                                 PnOf(al.p_ena), PnOf(al.p_old))]))

\* the body of exec_convert's loop for one member cell
exec_convert_cell(c, cell, cs, conv) ==
    LET set_reset == contains(c[cell].type, <<"S", "S">>) IN
    Then(ff_strip(c, cell, conv), LAMBDA c1 :
    Then(alloc_ports(free_ports_of(c1, cell, conv), conv), LAMBDA al :
    Then(IF needs_new_lut(c1, cell, conv) THEN insert_lut(c1, cell) ELSE c1, LAMBDA c2 :
    Then(tgt_lut_of(c1, cell, conv), LAMBDA tgt_lut :
    wire_lut(c2, cell, tgt_lut, al, cs, set_reset)))))

RECURSIVE exec_convert_cells(_, _, _, _)
exec_convert_cells(c, cells, cs, conv) ==
    IF cells = <<>> THEN c
    ELSE Then(exec_convert_cell(c, Head(cells), cs, conv), LAMBDA c1 :
              exec_convert_cells(c1, Tail(cells), cs, conv))

exec_convert(c, m, cs, conv) == exec_convert_cells(c, m[cs], cs, conv)

-----------------------------------------------------------------------------
(* Merge search *)

\* Python's order on the net names of the model ('' first)
NameOrder == <<"", "a", "c", "e", "f", "k", "x", "y">>
NameRank(n) == CHOOSE k \in 1..Len(NameOrder) : NameOrder[k] = n

\* x or ''
OrEmpty(x) == IF x # None /\ x # "" THEN x ELSE ""

\* variant: the worklist is sorted on the reset/set net alone
sort_key_rs_only(k) == <<NameRank(OrEmpty(k.rs))>>

\* the sort key of optimize, line 341
sort_key(k) == <<NameRank(OrEmpty(k.rs)), NameRank(OrEmpty(k.ena)), NameRank(OrEmpty(k.clk))>>

\* tuple comparison
TupleLess(a, b) ==
    \E i \in 1..Len(a) :
        /\ \A j \in 1..(i - 1) : a[j] = b[j]
        /\ a[i] < b[i]

key_less(a, b) == TupleLess(sort_key(a), sort_key(b))

\* variant: ties on the ratio go to the smaller group (x[3] instead of -x[3])
cand_less_smaller_group(a, b) ==
    LET ra == a.cost * Len(b.cset_in_group)
        rb == b.cost * Len(a.cset_in_group)
    IN  \/ ra < rb
        \/ ra = rb /\ a.cell_in_group < b.cell_in_group

\* line 419: (cost / len(csets), -cells), compared exactly
cand_less(a, b) ==
    LET ra == a.cost * Len(b.cset_in_group)
        rb == b.cost * Len(a.cset_in_group)
    IN  \/ ra < rb
        \/ ra = rb /\ (0 - a.cell_in_group) < (0 - b.cell_in_group)

\* the order of a sort: "key" at line 341, "cand" at line 419
sort_less(by, a, b) == IF by = "key" THEN key_less(a, b) ELSE cand_less(a, b)

\* sorted(): stable, an element goes after every element not greater than it
RECURSIVE insert_sorted(_, _, _)
insert_sorted(s, x, by) ==
    IF s = <<>> THEN <<x>>
    ELSE IF sort_less(by, x, Head(s)) THEN <<x>> \o s
    ELSE <<Head(s)>> \o insert_sorted(Tail(s), x, by)

RECURSIVE sorted(_, _)
sorted(s, by) ==
    IF s = <<>> THEN <<>>
    ELSE Then(sorted(SubSeq(s, 1, Len(s) - 1), by), LAMBDA r :
              insert_sorted(r, s[Len(s)], by))

\* the keys of the index in iteration (insertion) order
RECURSIVE dict_keys(_, _, _)
dict_keys(c, names, seen) ==
    IF names = <<>> THEN seen
    ELSE LET cell == Head(names) IN
         IF ~IsFF(c, cell) THEN dict_keys(c, Tail(names), seen)
         ELSE LET k == from_cell(c, cell) IN
              dict_keys(c, Tail(names),
                        IF \E i \in 1..Len(seen) : seen[i] = k THEN seen
                        ELSE Append(seen, k))

\* the target of a removal, lines 367-371 and 386-390
target(cs, conv) ==
    ControlSet(IF rm_rs_of(conv) THEN None ELSE cs.rs,
               IF rm_ena_of(conv) THEN None ELSE cs.ena,
               cs.clk)

Truthy(x) == x # None /\ x # ""

\* variant: the scan of the worklist is run for every target (no line 382)
alt_csets_unguarded(c, m, tp, th, tgt, conv) ==
    SelectSeq(tp, LAMBDA alt_cset :
        /\ ~(Len(m[alt_cset]) >= th)
        /\ can_convert(c, m, alt_cset, conv)
        /\ tgt = target(alt_cset, conv))

\* lines 382-404: the other control sets the same removal brings in line
alt_csets(c, m, tp, th, tgt, conv) ==
    IF Truthy(tgt.rs) \/ Truthy(tgt.ena)
    THEN SelectSeq(tp, LAMBDA alt_cset :
            /\ ~(Len(m[alt_cset]) >= th)
            /\ can_convert(c, m, alt_cset, conv)
            /\ tgt = target(alt_cset, conv))
    ELSE <<>>

\* variant: the members already under the target are not counted (line 379)
candidate_without_target(c, m, tp, th, cs, conv) ==
    Then(target(cs, conv), LAMBDA tgt :
    Then(alt_csets(c, m, tp, th, tgt, conv), LAMBDA alts :
    Then(<<cs>> \o alts, LAMBDA cset_in_group :
    LET cell_in_group ==
            Len(m[cs]) + SumSeq([k \in 1..Len(alts) |-> Len(m[alts[k]])])
    IN  [tgt |-> tgt, conv |-> conv,
         cost |-> SumSeq([k \in 1..Len(cset_in_group) |->
                              cost_convert(c, m, cset_in_group[k], conv)]),
         cell_in_group |-> cell_in_group,
         cset_in_group |-> cset_in_group])))

\* lines 363-412: the candidate of one removal option
candidate(c, m, tp, th, cs, conv) ==
    Then(target(cs, conv), LAMBDA tgt :
    Then(alt_csets(c, m, tp, th, tgt, conv), LAMBDA alts :
    Then(<<cs>> \o alts, LAMBDA cset_in_group :
    LET cell_in_group ==
            Len(m[cs])
            + (IF tgt \in DOMAIN m THEN Len(m[tgt]) ELSE 0)
            + SumSeq([k \in 1..Len(alts) |-> Len(m[alts[k]])])
    IN  [tgt |-> tgt, conv |-> conv,
         cost |-> SumSeq([k \in 1..Len(cset_in_group) |->
                              cost_convert(c, m, cset_in_group[k], conv)]),
         cell_in_group |-> cell_in_group,
         cset_in_group |-> cset_in_group])))

Convs == <<1, 2, 3>>

\* every option that passes can_convert, in the order of the loop
legal_options(c, m, tp, th, cs) ==
    LET legal == SelectSeq(Convs, LAMBDA conv : can_convert(c, m, cs, conv))
    IN  [k \in 1..Len(legal) |-> candidate(c, m, tp, th, cs, legal[k])]

\* variant: no option is discarded (no lines 407-408)
survivors_all(opts, th) == opts

\* possible_tgt: the options that reach the threshold
survivors(opts, th) ==
    SelectSeq(opts, LAMBDA o : ~(o.cell_in_group < th))

\* list.remove(x) when x is in the list
RECURSIVE list_remove(_, _)

\* variant: the entry stays on the list
list_remove_keep(l, x) == l

list_remove(l, x) ==
    IF l = <<>> THEN <<>>
    ELSE IF Head(l) = x THEN Tail(l)
    ELSE <<Head(l)>> \o list_remove(Tail(l), x)

\* variant: a control set with exactly threshold members is not well used
well_used_strict(m, cs, th) == Len(m[cs]) > th

\* line 352: the control set is well used
well_used(m, cs, th) == Len(m[cs]) >= th

\* variant: the bucket of tgt is replaced, not extended
fold_into_overwrite(m, cset_cur, tgt) ==
    [k \in (DOMAIN m \ {cset_cur}) \cup {tgt} |-> IF k = tgt THEN m[cset_cur] ELSE m[k]]

\* lines 439-440: move the cells of cset_cur into the bucket of tgt
fold_into(m, cset_cur, tgt) ==
    SetDefaultExtend(DictPop(m, cset_cur), tgt, m[cset_cur])

\* the iteration order of the dict after lines 439-440
fold_keys(ks, m, cset_cur, tgt) ==
    IF tgt \in DOMAIN m /\ tgt # cset_cur
    THEN list_remove(ks, cset_cur)
    ELSE Append(list_remove(ks, cset_cur), tgt)

NoCset == ControlSet(None, None, None)
NoCand == [tgt |-> NoCset, conv |-> 0, cost |-> 0, cell_in_group |-> 0,
           cset_in_group |-> <<>>]

-----------------------------------------------------------------------------
(* Netlists the runs start from *)

NFF == 3            \* flip-flops in a netlist
MaxThreshold == 3   \* thresholds 2..MaxThreshold

Absent == "<absent>"
Digit == <<"1", "2", "3", "4", "5", "6", "7", "8", "9">>

\* flip-flop wirings: type tag suffix, nets on R, S, E (Absent: no such port), C
CtlProfiles == <<
    [tag |-> <<>>,                R |-> Absent, S |-> Absent, E |-> Absent, C |-> "c"],
    [tag |-> <<"S", "R">>,        R |-> "x",    S |-> Absent, E |-> Absent, C |-> "c"],
    [tag |-> <<"S", "S">>,        R |-> Absent, S |-> "y",    E |-> Absent, C |-> "c"],
    [tag |-> <<"E">>,             R |-> Absent, S |-> Absent, E |-> "e",    C |-> "c"],
    [tag |-> <<"E", "S", "R">>,   R |-> "x",    S |-> Absent, E |-> "e",    C |-> "c"],
    [tag |-> <<"E", "S", "S">>,   R |-> Absent, S |-> "y",    E |-> "e",    C |-> "c"],
    [tag |-> <<"R">>,             R |-> "x",    S |-> Absent, E |-> Absent, C |-> "c"],
    [tag |-> <<"N", "R">>,        R |-> "y",    S |-> Absent, E |-> Absent, C |-> "c"],
    [tag |-> <<"E", "R">>,        R |-> "x",    S |-> Absent, E |-> "f",    C |-> "c"],
    [tag |-> <<"N", "S", "R">>,   R |-> "x",    S |-> Absent, E |-> Absent, C |-> "k"] >>

Xor4 ==
    <<"0", "1", "1", "0", "1", "0", "0", "1", "1", "0", "0", "1", "0", "1", "1", "0">>

\* data drivers: a lookup table (with the nets on I0..I3, a carry cell on
\* I1/I2, a second consumer of its output) or an input pad
DrvProfiles == <<
    [lut |-> FALSE, I |-> <<None, None, None, None>>, carry |-> FALSE, sink |-> FALSE],
    [lut |-> TRUE,  I |-> <<"a", "a", "a", None>>,    carry |-> FALSE, sink |-> FALSE],
    [lut |-> TRUE,  I |-> <<"a", None, None, None>>,  carry |-> FALSE, sink |-> FALSE],
    [lut |-> TRUE,  I |-> <<"a", None, "a", None>>,   carry |-> FALSE, sink |-> FALSE],
    [lut |-> TRUE,  I |-> <<"a", "a", "a", "a">>,     carry |-> FALSE, sink |-> FALSE],
    [lut |-> TRUE,  I |-> <<"a", "a", "a", "a">>,     carry |-> FALSE, sink |-> TRUE],
    [lut |-> TRUE,  I |-> <<None, "a", "gnd", "a">>,  carry |-> TRUE,  sink |-> FALSE],
    [lut |-> TRUE,  I |-> <<"a", "gnd", "gnd", "gnd">>, carry |-> FALSE, sink |-> FALSE] >>

Pads == {"a", "c", "e", "f", "k", "x", "y"}

BaseCells ==
    [n \in {"io_" \o p : p \in Pads} \cup {"gnd"} |->
        IF n = "gnd"
        THEN [type |-> GND, ports |-> [Y |-> "gnd"], params |-> <<>>]
        ELSE [type |-> SB_IO,
              ports |-> [D_IN_0 |-> CHOOSE p \in Pads : n = "io_" \o p],
              params |-> <<>>]]

FFName(i) == "ff" \o Digit[i]

\* the cells of flip-flop i: the flip-flop, and its driver's cells
FFCells(i, ctl, drv) ==
    LET dnet == IF drv.lut THEN "d" \o Digit[i] ELSE "a"
        ff == [type |-> SB_DFF \o ctl.tag,
               ports |-> [p \in {"C", "D", "Q"}
                              \cup (IF ctl.R # Absent THEN {"R"} ELSE {})
                              \cup (IF ctl.S # Absent THEN {"S"} ELSE {})
                              \cup (IF ctl.E # Absent THEN {"E"} ELSE {}) |->
                            CASE p = "C" -> ctl.C
                              [] p = "D" -> dnet
                              [] p = "Q" -> "q" \o Digit[i]
                              [] p = "R" -> ctl.R
                              [] p = "S" -> ctl.S
                              [] p = "E" -> ctl.E],
               params |-> <<>>]
        lut == [type |-> SB_LUT4,
                ports |-> [I0 |-> drv.I[1], I1 |-> drv.I[2], I2 |-> drv.I[3],
                           I3 |-> drv.I[4], O |-> dnet],
                params |-> [LUT_INIT |-> Xor4]]
        carry == [type |-> SB_CARRY,
                  ports |-> [I0 |-> drv.I[2], I1 |-> drv.I[3], CI |-> None, CO |-> None],
                  params |-> <<>>]
        sink == [type |-> SB_IO, ports |-> [D_OUT_0 |-> dnet], params |-> <<>>]
    IN  (FFName(i) :> ff)
        @@ (IF drv.lut THEN ("lut" \o Digit[i]) :> lut ELSE <<>>)
        @@ (IF drv.carry THEN ("carry" \o Digit[i]) :> carry ELSE <<>>)
        @@ (IF drv.sink THEN ("sink" \o Digit[i]) :> sink ELSE <<>>)

\* a netlist of n flip-flops, flip-flop i wired as profs[i] = <<ctl, drv>>
RECURSIVE Netlist(_)
Netlist(profs) ==
    IF profs = <<>> THEN BaseCells
    ELSE LET n == Len(profs) IN
         FFCells(n, CtlProfiles[profs[n][1]], DrvProfiles[profs[n][2]])
         @@ Netlist(SubSeq(profs, 1, n - 1))

\* the order in which ctx.cells enumerates the cells
RECURSIVE CellOrder(_)
CellOrder(profs) ==
    IF profs = <<>> THEN <<"gnd">>
    ELSE LET n == Len(profs) IN
         CellOrder(SubSeq(profs, 1, n - 1))
         \o (IF DrvProfiles[profs[n][2]].lut THEN <<"lut" \o Digit[n]>> ELSE <<>>)
         \o <<FFName(n)>>

\* profile choices, listed in a fixed order
MainProfiles ==
    [k \in 1..Len(CtlProfiles) |-> <<k, 1>>]
    \o <<<<2, 2>>, <<3, 2>>, <<4, 2>>, <<5, 2>>, <<6, 2>>, <<10, 2>>>>

\* the non-decreasing sequences of length n over lo..hi
RECURSIVE NonDec(_, _, _)
NonDec(n, lo, hi) ==
    IF n = 0 THEN {<<>>}
    ELSE UNION { { <<p>> \o s : s \in NonDec(n - 1, p, hi) } : p \in lo..hi }

-----------------------------------------------------------------------------
(* The run *)

\* the optimizer constructed on netlist c, about to run optimize(threshold=th)
InitOn(c, order, th) ==
    /\ ctx = c
    /\ cset_map = build_map_scan(ctx, order, <<>>)
    /\ cset_keys = dict_keys(ctx, order, <<>>)
    /\ threshold = th
    /\ to_process = <<>>
    /\ total_cost = 0
    /\ pc = "start"
    /\ cset = NoCset
    /\ possible_tgt = <<>>
    /\ evaluated = <<>>
    /\ chosen = NoCand
    /\ pending = <<>>
    /\ cset_map0 = cset_map
    /\ ctx0 = ctx
    /\ cset_cnt_before = 0
    /\ cset_cnt_after = 0
    /\ call = <<>>
    /\ result = <<>>

InitRun(profs, th) == InitOn(Netlist(profs), CellOrder(profs), th)

Init ==
    \E sel \in NonDec(NFF, 1, Len(MainProfiles)), th \in 2..MaxThreshold :
        InitRun([i \in 1..NFF |-> MainProfiles[sel[i]]], th)

\* optimize, lines 341-343
Start ==
    /\ pc = "start"
    /\ to_process' = sorted(cset_keys, "key")
    /\ cset_cnt_before' = Cardinality(DOMAIN cset_map)
    /\ total_cost' = 0
    /\ pc' = "loop"
    /\ UNCHANGED <<ctx, cset_map, cset_keys, threshold, cset, possible_tgt,
                   chosen, pending, evaluated, cset_map0, cset_cnt_after,
                   ctx0, call, result>>

\* lines 346-353: pop a control set that is well used
Skip ==
    /\ pc = "loop"
    /\ to_process # <<>>
    /\ well_used(cset_map, PopLast(to_process), threshold)
    /\ cset' = PopLast(to_process)
    /\ to_process' = PopRest(to_process)
    /\ possible_tgt' = <<>>
    /\ evaluated' = <<>>
    /\ UNCHANGED <<ctx, cset_map, cset_keys, total_cost, threshold, pc, chosen,
                   pending, cset_map0, cset_cnt_before, cset_cnt_after,
                   ctx0, call, result>>

\* lines 346-412: pop a control set below the threshold, evaluate its options
Evaluate ==
    /\ pc = "loop"
    /\ to_process # <<>>
    /\ ~well_used(cset_map, PopLast(to_process), threshold)
    /\ cset' = PopLast(to_process)
    /\ to_process' = PopRest(to_process)
    /\ evaluated' = legal_options(ctx, cset_map, to_process', threshold, cset')
    /\ possible_tgt' = survivors(evaluated', threshold)
    /\ pc' = "select"
    /\ UNCHANGED <<ctx, cset_map, cset_keys, total_cost, threshold, chosen,
                   pending, cset_map0, cset_cnt_before, cset_cnt_after,
                   ctx0, call, result>>

\* lines 414-416: nothing to do
NoCandidate ==
    /\ pc = "select"
    /\ Len(possible_tgt) = 0
    /\ pc' = "loop"
    /\ UNCHANGED <<ctx, cset_map, cset_keys, to_process, total_cost, threshold,
                   cset, possible_tgt, chosen, pending, evaluated, cset_map0,
                   cset_cnt_before, cset_cnt_after, ctx0, call, result>>

\* lines 418-428: sort the candidates and take the first
Select ==
    /\ pc = "select"
    /\ Len(possible_tgt) # 0
    /\ possible_tgt' = sorted(possible_tgt, "cand")
    /\ chosen' = possible_tgt'[1]
    /\ pending' = chosen'.cset_in_group
    /\ pc' = "apply"
    /\ UNCHANGED <<ctx, cset_map, cset_keys, to_process, total_cost, threshold,
                   cset, evaluated, cset_map0, cset_cnt_before, cset_cnt_after,
                   ctx0, call, result>>

\* lines 431-440: convert one control set of the group and fold it into tgt
Fold ==
    /\ pc = "apply"
    /\ pending # <<>>
    /\ LET cset_cur == Head(pending) IN
        /\ ctx' = exec_convert(ctx, cset_map, cset_cur, chosen.conv)
        /\ to_process' = (IF \E k \in 1..Len(to_process) : to_process[k] = cset_cur
                           THEN list_remove(to_process, cset_cur)
                           ELSE to_process)
        /\ cset_map' = fold_into(cset_map, cset_cur, chosen.tgt)
        /\ cset_keys' = fold_keys(cset_keys, cset_map, cset_cur, chosen.tgt)
    /\ pending' = Tail(pending)
    /\ UNCHANGED <<total_cost, threshold, pc, cset, possible_tgt, chosen,
                   evaluated, cset_map0, cset_cnt_before, cset_cnt_after,
                   ctx0, call, result>>

\* line 442
Charge ==
    /\ pc = "apply"
    /\ pending = <<>>
    /\ total_cost' = total_cost + chosen.cost
    /\ pc' = "loop"
    /\ UNCHANGED <<ctx, cset_map, cset_keys, to_process, threshold, cset,
                   possible_tgt, chosen, pending, evaluated, cset_map0,
                   cset_cnt_before, cset_cnt_after, ctx0, call, result>>

\* lines 444-446
Finish ==
    /\ pc = "loop"
    /\ to_process = <<>>
    /\ cset_cnt_after' = Cardinality(DOMAIN cset_map)
    /\ pc' = "done"
    /\ UNCHANGED <<ctx, cset_map, cset_keys, to_process, total_cost, threshold,
                   cset, possible_tgt, chosen, pending, evaluated, cset_map0,
                   cset_cnt_before, ctx0, call, result>>

Next ==
    \/ Start
    \/ Skip
    \/ Evaluate
    \/ NoCandidate
    \/ Select
    \/ Fold
    \/ Charge
    \/ Finish

Spec == Init /\ [][Next]_vars

TypeOK ==
    /\ pc \in {"start", "loop", "select", "apply", "done"}
    /\ total_cost \in Nat

-----------------------------------------------------------------------------
(* Properties *)

\* the cells filed in an index, and how often a cell is filed
FiledCells(m) == UNION { { m[k][i] : i \in 1..Len(m[k]) } : k \in DOMAIN m }
TimesFiled(m, cell) ==
    Cardinality({ ki \in UNION { { <<k, i>> : i \in 1..Len(m[k]) } : k \in DOMAIN m } :
                    m[ki[1]][ki[2]] = cell })
MemberCount(m) ==
    Cardinality(UNION { { <<k, i>> : i \in 1..Len(m[k]) } : k \in DOMAIN m })

\* C1: after every merge step, every flip-flop that build_map filed is in
\* exactly one bucket, no cell is dropped, duplicated or added, and the sum of
\* the bucket sizes is the sum before the run.
C1_CellsPartitioned ==
    /\ \A cell \in FiledCells(cset_map0) : TimesFiled(cset_map, cell) = 1
    /\ FiledCells(cset_map) = FiledCells(cset_map0)
    /\ MemberCount(cset_map) = MemberCount(cset_map0)

C1_Witness ==
    /\ pc = "done"
    /\ cset_map # cset_map0
    /\ \E k \in DOMAIN cset_map : Len(cset_map[k]) >= 3

\* C2 as stated: a control set that has at least threshold members at the
\* start keeps its key and the same member list to the end of the run.
C2_Original ==
    pc = "done" =>
        \A k \in DOMAIN cset_map0 :
            Len(cset_map0[k]) >= threshold =>
                k \in DOMAIN cset_map /\ cset_map[k] = cset_map0[k]

\* C2 as amended: a control set that has at least threshold members at the
\* start keeps its key, its members stay the leading part of its list in the
\* same order, and none of them is rewired or retyped; cells of merged control
\* sets may be appended.
C2_WellUsedKept ==
    \A k \in DOMAIN cset_map0 :
        Len(cset_map0[k]) >= threshold =>
            /\ k \in DOMAIN cset_map
            /\ Len(cset_map[k]) >= Len(cset_map0[k])
            /\ SubSeq(cset_map[k], 1, Len(cset_map0[k])) = cset_map0[k]
            /\ \A i \in 1..Len(cset_map0[k]) :
                   ctx[cset_map0[k][i]] = ctx0[cset_map0[k][i]]

C2_Witness ==
    /\ pc = "done"
    /\ \E k \in DOMAIN cset_map0 :
        /\ Len(cset_map0[k]) >= threshold
        /\ Len(cset_map[k]) > Len(cset_map0[k])

-----------------------------------------------------------------------------
(* Calls of single methods on an optimizer that was just constructed *)

MaxMembers == 2   \* members of the control set a method is called on

\* every SB_DFF* type: [N][E][SR|SS|R|S]
RsSuffixes == {<<>>, <<"S", "R">>, <<"S", "S">>, <<"R">>, <<"S">>}
FFKinds == [n : BOOLEAN, e : BOOLEAN, rs : RsSuffixes]
KindTag(k) ==
    (IF k.n THEN <<"N">> ELSE <<>>) \o (IF k.e THEN <<"E">> ELSE <<>>) \o k.rs

\* the wiring of a flip-flop of kind k in the control set (rs, ena, "c")
KindCtl(k, rs, ena) ==
    [tag |-> KindTag(k),
     R |-> IF k.rs \in {<<"S", "R">>, <<"R">>} THEN rs ELSE Absent,
     S |-> IF k.rs \in {<<"S", "S">>, <<"S">>} THEN rs ELSE Absent,
     E |-> IF k.e THEN ena ELSE Absent,
     C |-> "c"]

\* the kinds that have the ports the control set (rs, ena, "c") needs
KindsOf(rs, ena) ==
    { k \in FFKinds : (k.rs # <<>>) = (rs # None) /\ k.e = (ena # None) }

\* a netlist of flip-flops wired as ctls[i], driven as DrvProfiles[drvs[i]]
RECURSIVE NetlistOf(_, _)
NetlistOf(ctls, drvs) ==
    IF ctls = <<>> THEN BaseCells
    ELSE LET n == Len(ctls) IN
         FFCells(n, ctls[n], DrvProfiles[drvs[n]])
         @@ NetlistOf(SubSeq(ctls, 1, n - 1), SubSeq(drvs, 1, n - 1))

RECURSIVE CellOrderOf(_)
CellOrderOf(drvs) ==
    IF drvs = <<>> THEN <<"gnd">>
    ELSE LET n == Len(drvs) IN
         CellOrderOf(SubSeq(drvs, 1, n - 1))
         \o (IF DrvProfiles[drvs[n]].lut THEN <<"lut" \o Digit[n]>> ELSE <<>>)
         \o <<FFName(n)>>

\* the optimizer constructed on netlist c, about to run the call
InitCall(c, order, callrec) ==
    /\ ctx = c
    /\ cset_map = build_map_scan(ctx, order, <<>>)
    /\ cset_keys = dict_keys(ctx, order, <<>>)
    /\ threshold = 4
    /\ to_process = <<>>
    /\ total_cost = 0
    /\ pc = "call"
    /\ cset = NoCset
    /\ possible_tgt = <<>>
    /\ evaluated = <<>>
    /\ chosen = NoCand
    /\ pending = <<>>
    /\ cset_map0 = cset_map
    /\ ctx0 = ctx
    /\ cset_cnt_before = 0
    /\ cset_cnt_after = 0
    /\ call = callrec
    /\ result = <<>>

Returns(v) ==
    /\ pc = "call"
    /\ pc' = "ret"
    /\ result' = v
    /\ UNCHANGED <<ctx, cset_map, cset_keys, to_process, total_cost, threshold, cset,
                   possible_tgt, chosen, pending, evaluated, cset_map0,
                   cset_cnt_before, cset_cnt_after, ctx0, call>>

\* can_convert(cset, conv) on a control set of one to MaxMembers flip-flops
InitCan ==
    \E rs \in {None, "x"}, ena \in {None, "e"}, n \in 1..MaxMembers, conv \in 1..3 :
        \E kinds \in [1..n -> KindsOf(rs, ena)] :
            InitCall(NetlistOf([i \in 1..n |-> KindCtl(kinds[i], rs, ena)],
                               [i \in 1..n |-> 1]),
                     CellOrderOf([i \in 1..n |-> 1]),
                     [cs |-> ControlSet(rs, ena, "c"), conv |-> conv])

CallCanConvert == Returns([ret |-> can_convert(ctx, cset_map, call.cs, call.conv)])

NextCan == CallCanConvert

SpecCan == InitCan /\ [][NextCan]_vars

\* the members of the control set the call is about
Members == cset_map[call.cs]

\* flip-flop types with a synchronous / an asynchronous set or reset
IsSyncType(t)  == contains(t, <<"S", "R">>) \/ contains(t, <<"S", "S">>)
IsAsyncType(t) == ~IsSyncType(t) /\ t[Len(t)] \in {"R", "S"}

\* C3: on a control set with both an enable and a reset/set net whose members
\* are all synchronous variants, can_convert rejects enable-only removal (2)
\* and accepts reset-only (1) and both (3).
C3_EnableOnlyRejected ==
    (/\ pc = "ret"
     /\ call.cs.rs # None /\ call.cs.ena # None
     /\ \A i \in 1..Len(Members) : IsSyncType(ctx[Members[i]].type))
    => result.ret = (call.conv \in {1, 3})

C3_Witness ==
    /\ pc = "ret"
    /\ call.cs.rs # None /\ call.cs.ena # None
    /\ Len(Members) = 2
    /\ \A i \in 1..Len(Members) : IsSyncType(ctx[Members[i]].type)
    /\ call.conv = 2
    /\ result.ret = FALSE

\* C4: on a control set with a reset/set net and at least one member of an
\* asynchronous variant (SB_DFFR, SB_DFFS, SB_DFFER, SB_DFFES and the
\* negative-edge SB_DFFNR, SB_DFFNS, SB_DFFNER, SB_DFFNES), can_convert rejects
\* reset-only (1) and both (3).
C4_AsyncResetKept ==
    (/\ pc = "ret"
     /\ call.cs.rs # None
     /\ \E i \in 1..Len(Members) : IsAsyncType(ctx[Members[i]].type)
     /\ call.conv \in {1, 3})
    => result.ret = FALSE

-----------------------------------------------------------------------------
(* The run on two control sets on one clock: A = (x, None, c) with two
   members and B = (None, None, c) with three, threshold 4, pad drivers *)

CsetA == ControlSet("x", None, "c")
CsetB == ControlSet(None, None, "c")

\* A's members are the flip-flops at positions pos, of kinds ka; B's are the rest
InitC5 ==
    \E pos \in { P \in SUBSET (1..5) : Cardinality(P) = 2 } :
    \E ka \in [pos -> KindsOf("x", None)], kb \in [(1..5) \ pos -> KindsOf(None, None)] :
        InitOn(NetlistOf([i \in 1..5 |-> IF i \in pos THEN KindCtl(ka[i], "x", None)
                                          ELSE KindCtl(kb[i], None, None)],
                         [i \in 1..5 |-> 1]),
               CellOrderOf([i \in 1..5 |-> 1]),
               4)

SpecC5 == InitC5 /\ [][Next]_vars

A_IsSynchronous ==
    /\ CsetA \in DOMAIN cset_map0
    /\ \A i \in 1..Len(cset_map0[CsetA]) : IsSyncType(ctx0[cset_map0[CsetA][i]].type)

\* C5: with A = (rs x, no enable, clock c) of two synchronous-reset members,
\* B = (no reset, no enable, clock c) of three members, threshold 4 and no
\* LUT drivers, the only surviving candidate for A is reset-only removal with
\* target B, projected size 5 and cost 0; it is applied, the run ends with one
\* control set fewer, B holding all five cells, and total cost 0.
C5_TwoSetsMerge ==
    A_IsSynchronous =>
        /\ (pc = "select" /\ cset = CsetA) =>
               possible_tgt = <<[tgt |-> CsetB, conv |-> 1, cost |-> 0,
                                 cell_in_group |-> 5, cset_in_group |-> <<CsetA>>]>>
        /\ pc = "apply" =>
               /\ chosen.conv = 1 /\ chosen.tgt = CsetB
               /\ chosen.cell_in_group = 5 /\ chosen.cost = 0
        /\ pc = "done" =>
               /\ DOMAIN cset_map = {CsetB}
               /\ Len(cset_map[CsetB]) = 5
               /\ FiledCells(cset_map) = { FFName(i) : i \in 1..5 }
               /\ cset_cnt_before = 2 /\ cset_cnt_after = 1
               /\ total_cost = 0
               /\ \A i \in 1..5 : from_cell(ctx, FFName(i)) = CsetB

C5_Witness ==
    /\ A_IsSynchronous
    /\ pc = "done"
    /\ cset_cnt_after = 1
    /\ Len(cset_map[CsetB]) = 5

-----------------------------------------------------------------------------
(* Calls of _update_lut_init *)

MaxOnes == 2   \* tables with up to MaxOnes one bits, and their complements

\* the LUT_INIT string with exactly the bits of S set (bit 15 first)
TableOf(S) == [k \in 1..16 |-> IF (16 - k) \in S THEN "1" ELSE "0"]

Tables ==
    { TableOf(S) : S \in { T \in SUBSET (0..15) : Cardinality(T) <= MaxOnes } }
    \cup { TableOf((0..15) \ S) : S \in { T \in SUBSET (0..15) : Cardinality(T) <= MaxOnes } }
    \cup { TableOf({1, 3, 5, 7, 9, 11, 13, 15}), Xor4, PassI3 }

\* the port numbers exec_convert can hand over: distinct ports, or None
PortArgs ==
    { a \in [pn_rs : {NoneInt} \cup 0..3, pn_ena : {NoneInt} \cup 0..3,
             pn_old : {NoneInt} \cup 0..3] :
        /\ (a.pn_ena = NoneInt) = (a.pn_old = NoneInt)
        /\ a.pn_ena # NoneInt => (a.pn_ena # a.pn_old /\ a.pn_rs \notin {a.pn_ena, a.pn_old})
        /\ (a.pn_rs # NoneInt \/ a.pn_ena # NoneInt) }

InitLut ==
    \E val \in Tables, a \in PortArgs, rs_val \in BOOLEAN :
        InitCall(BaseCells, <<"gnd">>,
                 [val |-> val, pn_rs |-> a.pn_rs, rs_val |-> rs_val,
                  pn_ena |-> a.pn_ena, pn_old |-> a.pn_old])

CallUpdateLutInit ==
    Returns([ret |-> _update_lut_init(call.val, call.pn_rs, call.rs_val,
                                      call.pn_ena, call.pn_old)])

NextLut == CallUpdateLutInit

SpecLut == InitLut /\ [][NextLut]_vars

\* bit p of the table index i is set
IndexHasBit(i, p) == (i % (2 ^ (p + 1))) >= 2 ^ p

\* bit i of a LUT_INIT string
TableBit(t, i) == t[16 - i]

\* C6: when only the reset/set is folded in (no enable edit), bit i of the
\* result is the asserted level (1 for set, 0 for reset) when bit p of i is
\* set and the original bit i otherwise, for every table, every p in 0..3 and
\* every i in 0..15; 0xAAAA with reset at position 0 becomes 0x0000.
C6_ResetOnlyTable ==
    (pc = "ret" /\ call.pn_rs # NoneInt /\ call.pn_ena = NoneInt) =>
        /\ Len(result.ret) = 16
        /\ \A i \in 0..15 :
               TableBit(result.ret, i) =
                   IF IndexHasBit(i, call.pn_rs)
                   THEN (IF call.rs_val THEN "1" ELSE "0")
                   ELSE TableBit(call.val, i)
        /\ (/\ call.val = <<"1", "0", "1", "0", "1", "0", "1", "0",
                            "1", "0", "1", "0", "1", "0", "1", "0">>
            /\ call.pn_rs = 0 /\ ~call.rs_val)
           => result.ret = [k \in 1..16 |-> "0"]

C6_Witness ==
    /\ pc = "ret"
    /\ call.pn_rs = 0 /\ call.pn_ena = NoneInt /\ ~call.rs_val
    /\ call.val = TableOf({1, 3, 5, 7, 9, 11, 13, 15})
    /\ result.ret = TableOf({})

-----------------------------------------------------------------------------
(* Calls of cost_convert *)

\* cost_convert(cset, conv) on a control set of one to MaxMembers flip-flops,
\* each behind any of the data drivers
InitCost ==
    \E rs \in {None, "x"}, ena \in {None, "e"}, n \in 1..MaxMembers, conv \in 1..3 :
        \E drvs \in [1..n -> 1..Len(DrvProfiles)] :
            LET kind == [n |-> FALSE, e |-> ena # None,
                         rs |-> IF rs # None THEN <<"S", "R">> ELSE <<>>]
            IN  InitCall(NetlistOf([i \in 1..n |-> KindCtl(kind, rs, ena)], drvs),
                         CellOrderOf(drvs),
                         [cs |-> ControlSet(rs, ena, "c"), conv |-> conv, drvs |-> drvs])

CallCostConvert == Returns([ret |-> cost_convert(ctx, cset_map, call.cs, call.conv)])

NextCost == CallCostConvert

SpecCost == InitCost /\ [][NextCost]_vars

\* the free inputs of a driver as it was wired: inputs left open or tied to
\* ground, without I1 and I2 when a carry cell hangs on them
WiredFree(d) ==
    Cardinality({ j \in 1..4 :
                    /\ d.I[j] \in {None, "gnd"}
                    /\ ~(d.carry /\ j \in {2, 3}) })

\* the spare inputs an option needs
Required(conv) == CASE conv = 1 -> 1 [] conv = 2 -> 2 [] conv = 3 -> 3

\* the members an option has to pay a new lookup table for
Charged(drvs, conv) ==
    { i \in 1..Len(drvs) :
        /\ DrvProfiles[drvs[i]].lut
        /\ ~DrvProfiles[drvs[i]].sink
        /\ WiredFree(DrvProfiles[drvs[i]]) < Required(conv) }

\* C7: cost_convert returns the number of members whose data driver is a
\* lookup table with exactly one consumer and fewer free inputs than the
\* option requires (1, 2, 3 for reset/set only, enable only, both); the cost
\* is between 0 and the member count and is 0 when no driver is a lookup table.
C7_CostCountsCharged ==
    pc = "ret" =>
        /\ result.ret = Cardinality(Charged(call.drvs, call.conv))
        /\ 0 <= result.ret /\ result.ret <= Len(Members)
        /\ (\A i \in 1..Len(call.drvs) : ~DrvProfiles[call.drvs[i]].lut) => result.ret = 0

C7_Witness ==
    /\ pc = "ret"
    /\ Len(Members) = 2
    /\ result.ret = 1
    /\ call.conv = 2
    /\ call.drvs = <<2, 4>>

-----------------------------------------------------------------------------
(* optimize as one function of the netlist, the index, the order in which
   the index enumerates its keys, and the threshold *)

\* lines 431-442 for the chosen candidate
RECURSIVE run_folds(_, _, _)
run_folds(st, cand, pend) ==
    IF pend = <<>> THEN [st EXCEPT !.cost = @ + cand.cost]
    ELSE LET cset_cur == Head(pend) IN
         Then([c    |-> exec_convert(st.c, st.m, cset_cur, cand.conv),
               m    |-> fold_into(st.m, cset_cur, cand.tgt),
               tp   |-> IF \E k \in 1..Len(st.tp) : st.tp[k] = cset_cur
                        THEN list_remove(st.tp, cset_cur) ELSE st.tp,
               cost |-> st.cost],
              LAMBDA s2 : run_folds(s2, cand, Tail(pend)))

\* lines 346-442
RECURSIVE run_loop(_, _)
run_loop(st, th) ==
    IF st.tp = <<>> THEN st
    ELSE LET cs  == PopLast(st.tp)
             st1 == [st EXCEPT !.tp = PopRest(st.tp)]
         IN  IF well_used(st.m, cs, th) THEN run_loop(st1, th)
             ELSE LET poss == survivors(legal_options(st.c, st.m, st1.tp, th, cs), th)
                  IN  IF Len(poss) = 0 THEN run_loop(st1, th)
                      ELSE Then(sorted(poss, "cand")[1], LAMBDA ch :
                           Then(run_folds(st1, ch, ch.cset_in_group), LAMBDA s2 :
                           run_loop(s2, th)))

\* lines 343-442, from the sorted worklist on
run_from(c, m, worklist, th) ==
    run_loop([c |-> c, m |-> m, tp |-> worklist, cost |-> 0], th)

optimize(c, m, keys, th) == run_from(c, m, sorted(keys, "key"), th)

\* every order in which an index could enumerate the keys in K
KeyOrders(K) ==
    { o \in [1..Cardinality(K) -> K] : \A k \in K : \E i \in DOMAIN o : o[i] = k }

\* the worklists line 341 can produce from the keys in K
Worklists(K) == { sorted(o, "key") : o \in KeyOrders(K) }

\* C8: the result of optimize (final buckets, total cost, and the rewritten
\* netlist) is the same whatever order the index enumerates its keys in: the
\* sort on the three net names of each key yields one worklist for all
\* enumeration orders, and the run from it ends as the observed run did; two
\* runs on the same netlist and threshold end alike.
C8_OrderIndependent ==
    pc = "done" =>
        /\ Cardinality(Worklists(DOMAIN cset_map0)) = 1
        /\ \A w \in Worklists(DOMAIN cset_map0) :
               Then(run_from(ctx0, cset_map0, w, threshold), LAMBDA r :
                    /\ r.m = cset_map
                    /\ r.cost = total_cost
                    /\ r.c = ctx)

C8_Witness ==
    /\ pc = "done"
    /\ Cardinality(DOMAIN cset_map0) = 3
    /\ total_cost > 0
    /\ cset_cnt_after < cset_cnt_before

-----------------------------------------------------------------------------
(* Projected group sizes *)

\* the members filed under the keys in K
CellsUnder(m, K) ==
    Cardinality(UNION { { <<k, i>> : i \in 1..Len(m[k]) } : k \in K \cap DOMAIN m })

\* the other control sets on the worklist that are below the threshold, pass
\* can_convert for the option and yield the same target
InLine(o) ==
    { k \in { to_process[i] : i \in 1..Len(to_process) } :
        /\ Len(cset_map[k]) < threshold
        /\ can_convert(ctx, cset_map, k, o.conv)
        /\ target(k, o.conv) = o.tgt }

\* C9 as stated: the projected size of every evaluated option is the popped
\* set's member count, plus the members under the target, plus the members of
\* every other in-line control set on the worklist, for every target, the
\* clock-only target included.
C9_Original ==
    pc = "select" =>
        \A j \in 1..Len(evaluated) :
            evaluated[j].cell_in_group =
                Len(cset_map[cset]) + CellsUnder(cset_map, {evaluated[j].tgt})
                + CellsUnder(cset_map, InLine(evaluated[j]))

\* C9 as amended: the projected size of every evaluated option is the popped
\* set's member count plus the members under the target, plus, when the
\* target keeps a reset/set or an enable net, the members of every other
\* in-line control set on the worklist; for the clock-only target no other
\* control set is counted and the group is the popped set alone.
C9_ProjectedSize ==
    pc = "select" =>
        \A j \in 1..Len(evaluated) :
            LET o == evaluated[j]
                others == IF o.tgt.rs # None \/ o.tgt.ena # None THEN InLine(o) ELSE {}
            IN  /\ o.cell_in_group =
                       Len(cset_map[cset]) + CellsUnder(cset_map, {o.tgt})
                       + CellsUnder(cset_map, others)
                /\ { o.cset_in_group[i] : i \in 1..Len(o.cset_in_group) } = {cset} \cup others
                /\ Len(o.cset_in_group) = 1 + Cardinality(others)

C9_Witness ==
    /\ pc = "select"
    /\ \E j \in 1..Len(evaluated) :
        /\ Len(evaluated[j].cset_in_group) = 2
        /\ evaluated[j].tgt \in DOMAIN cset_map
        /\ evaluated[j].cell_in_group = 3

\* C10: every applied candidate has a projected size of at least the
\* threshold; when its merge step is complete the target bucket holds exactly
\* that many cells; between merge steps every bucket the run created or
\* extended has at least threshold members.
C10_MergedBucketsWellUsed ==
    /\ pc = "apply" => chosen.cell_in_group >= threshold
    /\ (pc = "apply" /\ pending = <<>>) =>
           /\ chosen.tgt \in DOMAIN cset_map
           /\ Len(cset_map[chosen.tgt]) = chosen.cell_in_group
    /\ pc \in {"loop", "select", "done"} =>
           \A k \in DOMAIN cset_map :
               (k \notin DOMAIN cset_map0 \/ cset_map[k] # cset_map0[k])
                   => Len(cset_map[k]) >= threshold

C10_Witness ==
    /\ pc = "apply" /\ pending = <<>>
    /\ Len(chosen.cset_in_group) = 2
    /\ chosen.tgt \notin DOMAIN cset_map0
    /\ Len(cset_map[chosen.tgt]) = chosen.cell_in_group

-----------------------------------------------------------------------------
(* Selection among the candidates *)

SelNFF == 4   \* flip-flops in a netlist of the selection runs

\* wirings and drivers for which the options of one control set differ in
\* cost, in group size and in the number of control sets merged
SelProfiles ==
    <<<<1, 1>>, <<2, 1>>, <<3, 2>>, <<4, 1>>, <<5, 1>>, <<5, 2>>, <<5, 5>>,
      <<6, 1>>, <<6, 2>>>>

InitSel ==
    \E sel \in NonDec(SelNFF, 1, Len(SelProfiles)), th \in 2..MaxThreshold :
        InitRun([i \in 1..SelNFF |-> SelProfiles[sel[i]]], th)

SpecSel == InitSel /\ [][Next]_vars

\* cost per merged control set of a is at most / equal to that of b
RatioLeq(a, b) == a.cost * Len(b.cset_in_group) <= b.cost * Len(a.cset_in_group)
RatioEq(a, b)  == a.cost * Len(b.cset_in_group) = b.cost * Len(a.cset_in_group)

\* C11: the candidate optimize applies is a surviving candidate of the popped
\* control set whose cost per merged control set is minimal and, among those
\* of minimal ratio, whose projected size is maximal; an iteration in which no
\* candidate survives leaves the index and the netlist unchanged (popping the
\* control set from the worklist is all it does).
C11_MinRatioChosen ==
    [][/\ (pc = "select" /\ pc' = "apply") =>
              /\ \E j \in 1..Len(possible_tgt) : possible_tgt[j] = chosen'
              /\ \A j \in 1..Len(possible_tgt) :
                     /\ RatioLeq(chosen', possible_tgt[j])
                     /\ RatioEq(chosen', possible_tgt[j])
                            => chosen'.cell_in_group >= possible_tgt[j].cell_in_group
       /\ (pc = "loop" /\ pc' = "select") =>
              /\ ctx' = ctx /\ cset_map' = cset_map /\ total_cost' = total_cost
              /\ to_process' = SubSeq(to_process, 1, Len(to_process) - 1)
       /\ (pc = "select" /\ pc' = "loop") =>
              /\ possible_tgt = <<>>
              /\ ctx' = ctx /\ cset_map' = cset_map /\ total_cost' = total_cost
              /\ to_process' = to_process
              /\ cset \in DOMAIN cset_map' /\ \A i \in 1..Len(cset_map[cset]) :
                     ctx'[cset_map[cset][i]] = ctx[cset_map[cset][i]]
       /\ (pc = "select" /\ possible_tgt = <<>>) => pc' = "loop"
      ]_vars

\* two survivors of equal ratio and different size, the larger one applied
C11_Witness ==
    /\ pc = "apply"
    /\ Len(possible_tgt) >= 2
    /\ \E j \in 1..Len(possible_tgt) :
        /\ RatioEq(chosen, possible_tgt[j])
        /\ possible_tgt[j].cell_in_group < chosen.cell_in_group

-----------------------------------------------------------------------------
(* Enable edits of the truth table *)

\* C12: when the enable is folded in at position pe with the feedback at po
\* (and, if the reset/set is folded in too, at p; the positions pairwise
\* distinct), bit i of the result is bit po of i where bit pe of i is clear,
\* also where bit p of i is set; it is the asserted level where bit pe and
\* bit p of i are set; and it is the original bit i elsewhere.
C12_EnableTable ==
    (pc = "ret" /\ call.pn_ena # NoneInt) =>
        /\ Len(result.ret) = 16
        /\ \A i \in 0..15 :
               TableBit(result.ret, i) =
                   IF ~IndexHasBit(i, call.pn_ena)
                   THEN (IF IndexHasBit(i, call.pn_old) THEN "1" ELSE "0")
                   ELSE IF call.pn_rs # NoneInt /\ IndexHasBit(i, call.pn_rs)
                   THEN (IF call.rs_val THEN "1" ELSE "0")
                   ELSE TableBit(call.val, i)

\* a set input at position 0 that the enable-hold overrides at entry 1
C12_Witness ==
    /\ pc = "ret"
    /\ call.pn_rs = 0 /\ call.pn_ena = 2 /\ call.pn_old = 1 /\ call.rs_val
    /\ TableBit(call.val, 1) = "1"
    /\ TableBit(result.ret, 1) = "0"
    /\ TableBit(result.ret, 5) = "1"

-----------------------------------------------------------------------------
(* Calls of exec_convert *)

\* LUT_INIT values of the driver lookup tables: parity of the four inputs,
\* pass-through of I3, pass-through of I0
ExecTables == {Xor4, PassI3, TableOf({1, 3, 5, 7, 9, 11, 13, 15})}

WithTables(c, t) ==
    [n \in DOMAIN c |->
        IF c[n].type = SB_LUT4 THEN [c[n] EXCEPT !.params = [LUT_INIT |-> t]] ELSE c[n]]

\* positive-edge synchronous kinds with the ports of the control set
ExecKinds(rs, ena) == { k \in KindsOf(rs, ena) : ~k.n /\ k.rs \in {<<>>, <<"S", "R">>, <<"S", "S">>} }

\* exec_convert(cset, conv) on a control set of one to MaxMembers flip-flops
\* behind any of the data drivers, for an option can_convert accepts
InitExec ==
    \E rs \in {None, "x"}, ena \in {None, "e"}, n \in 1..MaxMembers, conv \in 1..3 :
        \E kinds \in [1..n -> ExecKinds(rs, ena)], drvs \in NonDec(n, 1, Len(DrvProfiles)),
           t \in ExecTables :
            /\ InitCall(WithTables(NetlistOf([i \in 1..n |-> KindCtl(kinds[i], rs, ena)],
                                             drvs), t),
                        CellOrderOf(drvs),
                        [cs |-> ControlSet(rs, ena, "c"), conv |-> conv, drvs |-> drvs])
            /\ can_convert(ctx, cset_map, call.cs, call.conv)

CallExecConvert ==
    /\ pc = "call"
    /\ ctx' = exec_convert(ctx, cset_map, call.cs, call.conv)
    /\ pc' = "ret"
    /\ result' = [ret |-> None]
    /\ UNCHANGED <<cset_map, cset_keys, to_process, total_cost, threshold, cset,
                   possible_tgt, chosen, pending, evaluated, cset_map0,
                   cset_cnt_before, cset_cnt_after, ctx0, call>>

NextExec == CallExecConvert

SpecExec == InitExec /\ [][NextExec]_vars


\* what the call removes, read off the control set and the option
RsRemoved  == call.conv \in {1, 3}
EnaRemoved == call.conv \in {2, 3}

\* the fresh lookup table of member f, when there is one
FreshLut(f) == f \o "_conv"
HasFreshLut(c, f) == FreshLut(f) \in DOMAIN c

\* the inputs (0..3) of lookup table l that are on net
InputsOn(c, l, net) == { p \in 0..3 : c[l].ports[LutPorts[p + 1]] = net }

\* the value of table t for the input assignment i, as a bit
TableOut(t, i) == TableBit(t, i) = "1"

\* index i with input p forced to 0 / to 1
WithBit0(i, p) == IF IndexHasBit(i, p) THEN i - 2 ^ p ELSE i
WithBit1(i, p) == IF IndexHasBit(i, p) THEN i ELSE i + 2 ^ p

-----------------------------------------------------------------------------
(* Allocation of lookup-table inputs *)

\* the inputs of a driver that were free as it was wired: left open or tied
\* to ground, and not I1/I2 under a carry cell
WiredFreeInputs(d) ==
    { p \in 0..3 : /\ d.I[p + 1] \in {None, "gnd"}
                   /\ ~(d.carry /\ p \in {1, 2}) }

\* member k of the call keeps its driver lookup table as the rewrite target
RewrittenInPlace(k) ==
    LET d == DrvProfiles[call.drvs[k]] IN
    /\ d.lut /\ ~d.sink
    /\ Cardinality(WiredFreeInputs(d)) >= Required(call.conv)

\* the lookup table rewritten for member k and the inputs that were free on it
TargetLut(k) ==
    IF RewrittenInPlace(k) THEN DriverCell(ctx0, ctx0[Members[k]].ports["D"])
    ELSE FreshLut(Members[k])
FreeBefore(k) ==
    IF RewrittenInPlace(k) THEN WiredFreeInputs(DrvProfiles[call.drvs[k]]) ELSE {0, 1, 2}

\* the n highest elements of S
RECURSIVE Highest(_, _)
Highest(S, n) ==
    IF n = 0 \/ S = {} THEN {}
    ELSE LET mx == CHOOSE x \in S : \A y \in S : y <= x
         IN  {mx} \cup Highest(S \ {mx}, n - 1)

\* C14: for every member, each input exec_convert takes exists (the free list
\* is not empty), the inputs bound to reset/set, enable and feedback are
\* pairwise distinct and were free before (open or tied to ground, not
\* reserved by a carry), they are the highest-numbered free inputs taken in
\* the order reset/set, enable, feedback, and I3 of a fresh lookup table
\* still carries the data net.
C14_InputsAllocated ==
    pc = "ret" =>
        \A k \in 1..Len(Members) :
            LET f     == Members[k]
                l     == TargetLut(k)
                P_rs  == InputsOn(ctx, l, call.cs.rs)
                P_ena == InputsOn(ctx, l, call.cs.ena)
                P_old == InputsOn(ctx, l, ctx[f].ports["Q"])
                taken == (IF RsRemoved THEN P_rs ELSE {})
                         \cup (IF EnaRemoved THEN P_ena \cup P_old ELSE {})
            IN  /\ l \in DOMAIN ctx
                /\ HasFreshLut(ctx, f) = ~RewrittenInPlace(k)
                /\ Cardinality(FreeBefore(k)) >= Required(call.conv)
                /\ RsRemoved  => Cardinality(P_rs) = 1
                /\ EnaRemoved => Cardinality(P_ena) = 1 /\ Cardinality(P_old) = 1
                /\ Cardinality(taken) = Required(call.conv)
                /\ taken \subseteq FreeBefore(k)
                /\ taken = Highest(FreeBefore(k), Required(call.conv))
                /\ \A a \in P_rs, b \in P_ena, o \in P_old :
                       /\ (RsRemoved /\ EnaRemoved) => (a > b /\ a > o)
                       /\ EnaRemoved => b > o
                /\ HasFreshLut(ctx, f) => ctx[l].ports["I3"] = ctx0[f].ports["D"]
                /\ \A p \in (0..3) \ taken :
                       ctx[l].ports[LutPorts[p + 1]] =
                           IF RewrittenInPlace(k) THEN ctx0[l].ports[LutPorts[p + 1]]
                           ELSE IF p = 3 THEN ctx0[f].ports["D"] ELSE None

\* an in-place rewrite under a carry cell, and one that takes inputs tied to ground
C14_Witness ==
    /\ pc = "ret"
    /\ \E k \in 1..Len(Members) :
        /\ RewrittenInPlace(k)
        /\ call.drvs[k] = 8
        /\ call.conv = 3
        /\ InputsOn(ctx, TargetLut(k), call.cs.rs) = {3}
        /\ InputsOn(ctx, TargetLut(k), call.cs.ena) = {2}
        /\ InputsOn(ctx, TargetLut(k), ctx[Members[k]].ports["Q"]) = {1}

-----------------------------------------------------------------------------
(* The data function across an in-place rewrite *)

\* index i with every input in P forced to 0
RECURSIVE WithBits0(_, _)
WithBits0(i, P) ==
    IF P = {} THEN i
    ELSE LET p == CHOOSE x \in P : TRUE IN WithBits0(WithBit0(i, p), P \ {p})

\* C16: when the driver lookup table is rewritten in place, then for every
\* assignment of its originally connected inputs, with the reset/set input at
\* 0 and the enable input at 1, for either value of the fed-back Q and with
\* the inputs still free at 0, the rewritten table outputs what the original
\* table output with all its free inputs at 0.
C16_DataFunctionKept ==
    pc = "ret" =>
        \A k \in 1..Len(Members) :
            RewrittenInPlace(k) =>
                LET f     == Members[k]
                    l     == TargetLut(k)
                    P_rs  == IF RsRemoved THEN InputsOn(ctx, l, call.cs.rs) ELSE {}
                    P_ena == IF EnaRemoved THEN InputsOn(ctx, l, call.cs.ena) ELSE {}
                    P_old == IF EnaRemoved THEN InputsOn(ctx, l, ctx[f].ports["Q"]) ELSE {}
                    idle  == FreeBefore(k) \ (P_rs \cup P_ena \cup P_old)
                IN  \A i \in 0..15 :
                        (/\ \A p \in P_rs : ~IndexHasBit(i, p)
                         /\ \A p \in P_ena : IndexHasBit(i, p)
                         /\ \A p \in idle : ~IndexHasBit(i, p))
                        => TableOut(ctx[l].params.LUT_INIT, i)
                               = TableOut(ctx0[l].params.LUT_INIT,
                                          WithBits0(i, FreeBefore(k)))

-----------------------------------------------------------------------------
(* Termination *)

\* optimize runs to completion without suspension: a step that can be taken
\* is eventually taken
SpecFair == InitSel /\ [][Next]_vars /\ WF_vars(Next)

\* the control sets on the worklist
OnWorklist(tp) == { tp[i] : i \in 1..Len(tp) }

\* C15: optimize terminates with an empty worklist; every loop iteration
\* takes one entry off the worklist, a merge step only removes entries (the
\* target is not enqueued), so the worklist, which starts with one entry per
\* control set, never grows.
C15_Terminates ==
    /\ <>(pc = "done" /\ to_process = <<>>)
    /\ [][/\ pc = "start" => Len(to_process') = Cardinality(DOMAIN cset_map)
          /\ (pc = "loop" /\ pc' # "done") =>
                 /\ to_process # <<>>
                 /\ to_process' = SubSeq(to_process, 1, Len(to_process) - 1)
          /\ pc \in {"select", "apply"} =>
                 /\ Len(to_process') <= Len(to_process)
                 /\ OnWorklist(to_process') \subseteq OnWorklist(to_process)
                 /\ (chosen'.tgt \notin OnWorklist(to_process))
                        => (chosen'.tgt \notin OnWorklist(to_process'))
          /\ pc' = "done" => to_process = <<>>
         ]_vars

\* a run that ended after creating a control set that was never enqueued
C15_Witness ==
    /\ pc = "done"
    /\ to_process = <<>>
    /\ \E k \in DOMAIN cset_map : k \notin DOMAIN cset_map0
    /\ cset_cnt_before = 3


-----------------------------------------------------------------------------
(* The index and the netlist after a merge *)

\* the part of a flip-flop tag after SB_DFF and the optional N
EdgeStripped(t) ==
    LET suf == SubSeq(t, Len(SB_DFF) + 1, Len(t))
    IN  IF suf # <<>> /\ Head(suf) = "N" THEN Tail(suf) ELSE suf

\* the tag is one of SB_DFF[N][E][SR|SS|R|S]
IsFFTag(t) ==
    /\ startswith(t, SB_DFF)
    /\ EdgeStripped(t) \in
           { e \o r : e \in {<<>>, <<"E">>},
                      r \in {<<>>, <<"S", "R">>, <<"S", "S">>, <<"R">>, <<"S">>} }

NamesEnable(t) == EdgeStripped(t) # <<>> /\ Head(EdgeStripped(t)) = "E"

NamesResetSet(t) ==
    (IF NamesEnable(t) THEN Tail(EdgeStripped(t)) ELSE EdgeStripped(t)) # <<>>

\* no merge step is under way
BetweenMerges == pc \in {"loop", "select", "done"}

\* some control set has been folded
SomeFolded == \E K \in DOMAIN cset_map0 : K \notin DOMAIN cset_map

AgreesWithNetlist(K, cell) ==
    /\ from_cell(ctx, cell) = K
    /\ IsFFTag(ctx[cell].type)
    /\ NamesResetSet(ctx[cell].type) => K.rs # None
    /\ NamesEnable(ctx[cell].type) => K.ena # None

\* C17: after every completed merge step each member cell of each bucket K
\* is wired as K says and carries a flip-flop tag that names a reset/set
\* variant only if K has a reset/set net and an enable variant only if K has
\* an enable net.
C17_IndexAgrees ==
    BetweenMerges =>
        \A K \in DOMAIN cset_map : \A i \in 1..Len(cset_map[K]) :
            AgreesWithNetlist(K, cset_map[K][i])

\* the tags of the negative-edge flip-flops with an asynchronous reset/set
NegAsyncTags ==
    { SB_DFF \o <<"N">> \o e \o r : e \in {<<>>, <<"E">>}, r \in {<<"R">>, <<"S">>} }

\* the same statement on the runs whose netlist holds no such flip-flop
C17_IndexAgreesNoNegAsync ==
    (\A n \in DOMAIN ctx0 : ctx0[n].type \notin NegAsyncTags) => C17_IndexAgrees

C17_Witness ==
    /\ BetweenMerges
    /\ SomeFolded
    /\ \A n \in DOMAIN ctx0 : ctx0[n].type \notin NegAsyncTags
    /\ \E n \in DOMAIN ctx : IsFFTag(ctx[n].type) /\ ctx[n].type # ctx0[n].type


-----------------------------------------------------------------------------
(* The number of control sets *)

cset_cnt == Cardinality(DOMAIN cset_map)

\* the count the merge under way leaves when all of its group is folded
cset_cnt_projected ==
    IF pending = <<>> THEN cset_cnt
    ELSE cset_cnt - Len(pending) + (IF chosen.tgt \in DOMAIN cset_map THEN 0 ELSE 1)

\* C18: the number of control sets never goes up; a merge is applied only
\* when its target exists or it folds two or more control sets, every fold
\* keeps the count the merge will end with, which is below the count the
\* merge started from; the after-count is at most the before-count and below
\* it whenever the netlist or the index was changed.
C18_CountDecreases ==
    [][/\ Cardinality(DOMAIN cset_map') <= cset_cnt
       /\ (pc = "select" /\ pc' = "apply") =>
              /\ chosen'.tgt \in DOMAIN cset_map \/ Len(chosen'.cset_in_group) >= 2
              /\ cset_cnt_projected' < cset_cnt
       /\ (pc = "apply" /\ pc' = "apply") => cset_cnt_projected' = cset_cnt_projected
       /\ (pc = "apply" /\ pc' = "loop") =>
              /\ cset_cnt_projected = cset_cnt
              /\ Cardinality(DOMAIN cset_map') = cset_cnt
       /\ pc' = "done" =>
              /\ cset_cnt_after' <= cset_cnt_before
              /\ (ctx # ctx0 \/ cset_map # cset_map0) => cset_cnt_after' < cset_cnt_before
      ]_vars

\* two control sets were folded into a target that did not exist
C18_Witness ==
    /\ pc = "done"
    /\ Len(chosen.cset_in_group) >= 2
    /\ chosen.tgt \notin DOMAIN cset_map0
    /\ cset_cnt_after < cset_cnt_before


-----------------------------------------------------------------------------
(* The worklist and the index *)

NoDuplicates(l) == \A i, j \in 1..Len(l) : l[i] = l[j] => i = j

\* the bucket of K and its cells are as they were when the run started
Untouched(K) ==
    /\ K \in DOMAIN cset_map0
    /\ K \in DOMAIN cset_map
    /\ cset_map[K] = cset_map0[K]
    /\ \A i \in 1..Len(cset_map[K]) : ctx[cset_map[K][i]] = ctx0[cset_map[K][i]]

\* C19: every control set on the worklist is a key of the index, no control
\* set is on the worklist twice; while a merge is applied the target is none
\* of the folded control sets, and every control set still to be folded is a
\* key of the index whose bucket and cells were never converted before (so
\* each pop, lookup and removal finds its entry, and nothing is converted
\* twice).
C19_WorklistInIndex ==
    /\ pc # "start" =>
           /\ OnWorklist(to_process) \subseteq DOMAIN cset_map
           /\ NoDuplicates(to_process)
    /\ pc = "select" =>
           /\ cset \in DOMAIN cset_map
           /\ cset \notin OnWorklist(to_process)
           /\ \A k \in 1..Len(evaluated) :
                  /\ evaluated[k].tgt \notin OnWorklist(evaluated[k].cset_in_group)
                  /\ OnWorklist(Tail(evaluated[k].cset_in_group))
                         \subseteq OnWorklist(to_process)
    /\ pc = "apply" =>
           /\ chosen.tgt \notin OnWorklist(chosen.cset_in_group)
           /\ NoDuplicates(chosen.cset_in_group)
           /\ \A k \in 1..Len(pending) : Untouched(pending[k])
           /\ \A k \in 1..Len(chosen.cset_in_group) :
                  (\A j \in 1..Len(pending) : pending[j] # chosen.cset_in_group[k])
                      => /\ chosen.cset_in_group[k] \notin DOMAIN cset_map
                         /\ chosen.cset_in_group[k] \notin OnWorklist(to_process)

\* part of a group is folded, the next control set to fold is still enqueued
C19_Witness ==
    /\ pc = "apply"
    /\ pending # <<>>
    /\ Len(pending) < Len(chosen.cset_in_group)
    /\ Head(pending) \in OnWorklist(to_process)
    /\ Len(to_process) >= 2


-----------------------------------------------------------------------------
(* The cost charged and the lookup tables inserted *)

\* wirings and drivers of the runs that compare the charge with the rewrite:
\* pads, lookup tables with and without spare inputs, with a carry, with a
\* second consumer
ChargeProfiles ==
    <<<<1, 1>>, <<2, 2>>, <<2, 5>>, <<2, 6>>, <<4, 1>>, <<4, 2>>, <<4, 3>>,
      <<4, 6>>, <<4, 7>>, <<5, 2>>>>

InitCharge ==
    \E sel \in NonDec(NFF, 1, Len(ChargeProfiles)), th \in 2..MaxThreshold :
        InitRun([i \in 1..NFF |-> ChargeProfiles[sel[i]]], th)

SpecCharge == InitCharge /\ [][Next]_vars

\* the cells of the control sets the chosen merge folds
GroupCells ==
    UNION { { cset_map0[K][i] : i \in 1..Len(cset_map0[K]) } :
            K \in OnWorklist(chosen.cset_in_group) }

\* the cell that drove the data input of f before the run
DataDriver0(f) == DriverCell(ctx0, ctx0[f].ports["D"])

LutDriven0(f) == ctx0[DataDriver0(f)].type = SB_LUT4

\* the input ports on the data net of f before the run
Consumers0(f) ==
    { u \in (DOMAIN ctx0) \X InputPorts :
        /\ u[2] \in DOMAIN ctx0[u[1]].ports
        /\ ctx0[u[1]].ports[u[2]] = ctx0[f].ports["D"] }

\* a carry cell hangs on I1 and I2 of lookup table l
CarryOn0(l) ==
    \E n \in DOMAIN ctx0 :
        /\ ctx0[n].type = SB_CARRY
        /\ ctx0[n].ports["I0"] = ctx0[l].ports["I1"]
        /\ ctx0[n].ports["I1"] = ctx0[l].ports["I2"]

\* the inputs of lookup table l that were free before the run
FreeInputs0(l) ==
    { p \in 0..3 : /\ ctx0[l].ports[LutPorts[p + 1]] \in {None, "gnd"}
                   /\ ~(CarryOn0(l) /\ p \in {1, 2}) }

SingleConsumerLut0(f) == LutDriven0(f) /\ Cardinality(Consumers0(f)) = 1

TooFewInputs0(f, conv) ==
    Cardinality(FreeInputs0(DataDriver0(f))) < Required(conv)

\* the flip-flops of S that got a fresh lookup table in front of a
\* single-consumer lookup table
FreshOnOwnLut(S) ==
    { f \in S : HasFreshLut(ctx, f) /\ SingleConsumerLut0(f) }

FlipFlops0 == { n \in DOMAIN ctx0 : IsFF(ctx0, n) }

\* C20: the cost a merge adds to the total is the number of its member cells
\* that got a fresh lookup table in front of a single-consumer lookup table
\* with too few free inputs; the fresh lookup tables in front of other
\* drivers are not charged, and the reported total counts the same cells.
C20_CostMatchesRewrite ==
    [][/\ (pc = "apply" /\ pc' = "loop") =>
              /\ total_cost' = total_cost + Cardinality(FreshOnOwnLut(GroupCells))
              /\ \A f \in GroupCells :
                     /\ HasFreshLut(ctx, f) <=>
                            \/ ~SingleConsumerLut0(f)
                            \/ TooFewInputs0(f, chosen.conv)
                     /\ f \in FreshOnOwnLut(GroupCells) => TooFewInputs0(f, chosen.conv)
       /\ pc' = "done" => total_cost = Cardinality(FreshOnOwnLut(FlipFlops0))
      ]_vars

\* a merge was charged for one cell and inserted an uncharged lookup table
\* behind a driver with a second consumer
C20_Witness ==
    /\ pc = "loop"
    /\ chosen # NoCand
    /\ pending = <<>>
    /\ total_cost >= 1
    /\ \E f \in GroupCells :
           /\ HasFreshLut(ctx, f)
           /\ LutDriven0(f)
           /\ Cardinality(Consumers0(f)) > 1
    /\ \E f \in GroupCells : f \in FreshOnOwnLut(GroupCells)

====
